---- MODULE Spec2Model ----
(***************************************************************************)
(* Model of intrusive::list / intrusive::list_element / list_iterator      *)
(* (src/intrusive_list.h).  Nodes are numbered: elements 1..NumElems, the  *)
(* sentinel `fake` of list l is node NumElems + l, the null pointer is 0.  *)
(* The heap is the pair of pointer fields (next, prev) of every node.      *)
(* Every member function is an operator from heap to heap that performs    *)
(* the pointer writes of the source one statement at a time, so aliasing   *)
(* between the nodes involved behaves as in the code.                      *)
(***************************************************************************)
EXTENDS Integers, Sequences, FiniteSets, TLC

NumElems == 3
NumLists == 2
TagElems == 2

NULL == 0
Elems == 1..NumElems
Lists == 1..NumLists
Fake(l) == NumElems + l
Fakes == {Fake(l) : l \in Lists}
Nodes == Elems \cup Fakes
NumNodes == NumElems + NumLists

\* A second tag: every element embeds one more list_element, for the tag of
\* one further list, List2.  Tag 1 is the tag of the lists in Lists.
List2 == NumLists + 1
TagOf(l) == IF l \in Lists THEN 1 ELSE 2

static_cast_ignores_tag(tag, val) == val

\* static_cast<list_element<Tag>&>(val): the node of element val for a tag
static_cast_list_element(tag, val) ==
    IF tag = 1 THEN val ELSE NumNodes + 1 + val

Nodes2 == {NumNodes + 1 + e : e \in Elems} \cup {Fake(List2)}
AllNodes == Nodes \cup Nodes2

VARIABLES
    next,    \* next[n]: field list_element::next of node n
    prev,    \* prev[n]: field list_element::prev of node n
    alive,   \* the lists whose lifetime has begun and not ended
    ref,     \* ref[l]: reference sequence container mirroring list l
    op,      \* the last member function called, its arguments and result
    old      \* the heap immediately before that call

vars == <<next, prev, alive, ref, op, old>>

H == [next |-> next, prev |-> prev]

-----------------------------------------------------------------------------
(* list_element *)

unlink_keeps_links(h, n) ==
    LET h1 == IF h.next[n] # NULL
              THEN [h EXCEPT !.prev[h.next[n]] = h.prev[n]] ELSE h
        h2 == IF h1.prev[n] # NULL
              THEN [h1 EXCEPT !.next[h1.prev[n]] = h1.next[n]] ELSE h1
    IN  h2

unlink_self_loop(h, n) ==
    LET h1 == IF h.next[n] # NULL
              THEN [h EXCEPT !.prev[h.next[n]] = h.prev[n]] ELSE h
        h2 == IF h1.prev[n] # NULL
              THEN [h1 EXCEPT !.next[h1.prev[n]] = h1.next[n]] ELSE h1
    IN  [h2 EXCEPT !.next[n] = n, !.prev[n] = n]

unlink(h, n) ==
    LET h1 == IF h.next[n] # NULL
              THEN [h EXCEPT !.prev[h.next[n]] = h.prev[n]] ELSE h
        h2 == IF h1.prev[n] # NULL
              THEN [h1 EXCEPT !.next[h1.prev[n]] = h1.next[n]] ELSE h1
    IN  [h2 EXCEPT !.next[n] = NULL, !.prev[n] = NULL]

-----------------------------------------------------------------------------
(* list_iterator: an iterator is the node pointer `current` *)

operator_inc(h, current) == h.next[current]

operator_dec_follows_next(h, current) == h.next[current]

operator_dec(h, current) == h.prev[current]

operator_eq(current, rhs) == current = rhs

operator_ne(current, rhs) == current # rhs

-----------------------------------------------------------------------------
(* list *)

list_half_linked(h, l) ==
    [h EXCEPT !.next[Fake(l)] = Fake(l)]

list(h, l) ==
    LET h1 == [h EXCEPT !.next[Fake(l)] = Fake(l)]
    IN  [h1 EXCEPT !.prev[Fake(l)] = Fake(l)]

clear_one_only(h, l) ==
    IF h.next[Fake(l)] # Fake(l)
    THEN unlink(h, h.next[Fake(l)])
    ELSE h

\* the condition of the loop of clear()
clear_cond(h, l) == h.next[Fake(l)] # Fake(l)

clear_body_from_back(h, l) == unlink(h, h.prev[Fake(l)])

\* one iteration of the loop of clear()
clear_body(h, l) == unlink(h, h.next[Fake(l)])

RECURSIVE clear(_, _)
clear(h, l) ==
    IF clear_cond(h, l)
    THEN clear(clear_body(h, l), l)
    ELSE h

\* the heap after the first k iterations of the loop of clear(), or after
\* its last iteration if it exits earlier
RECURSIVE clear_after(_, _, _)
clear_after(h, l, k) ==
    IF k = 0 \/ ~clear_cond(h, l) THEN h
    ELSE clear_after(clear_body(h, l), l, k - 1)

\* the number of iterations clear() makes, counted up to `most`
RECURSIVE clear_iterations(_, _, _)
clear_iterations(h, l, most) ==
    IF most = 0 \/ ~clear_cond(h, l) THEN 0
    ELSE 1 + clear_iterations(clear_body(h, l), l, most - 1)

push_back_no_tail_update(h, l, cur) ==
    LET h1 == [h  EXCEPT !.next[cur] = Fake(l)]
        h2 == [h1 EXCEPT !.prev[cur] = h1.prev[Fake(l)]]
        h3 == [h2 EXCEPT !.next[h2.prev[Fake(l)]] = cur]
    IN  h3

push_back(h, l, cur) ==
    LET h1 == [h  EXCEPT !.next[cur] = Fake(l)]
        h2 == [h1 EXCEPT !.prev[cur] = h1.prev[Fake(l)]]
        h3 == [h2 EXCEPT !.next[h2.prev[Fake(l)]] = cur]
    IN  [h3 EXCEPT !.prev[Fake(l)] = cur]

pop_back_checks_empty(h, l) ==
    IF h.prev[Fake(l)] = Fake(l) THEN h ELSE unlink(h, h.prev[Fake(l)])

pop_back(h, l) == unlink(h, h.prev[Fake(l)])

back(h, l) == h.prev[Fake(l)]

push_front_unlinks_first(h, l, cur) ==
    LET h0 == unlink(h, cur)
        h1 == [h0 EXCEPT !.prev[cur] = Fake(l)]
        h2 == [h1 EXCEPT !.next[cur] = h1.next[Fake(l)]]
        h3 == [h2 EXCEPT !.prev[h2.next[Fake(l)]] = cur]
    IN  [h3 EXCEPT !.next[Fake(l)] = cur]

push_front(h, l, cur) ==
    LET h1 == [h  EXCEPT !.prev[cur] = Fake(l)]
        h2 == [h1 EXCEPT !.next[cur] = h1.next[Fake(l)]]
        h3 == [h2 EXCEPT !.prev[h2.next[Fake(l)]] = cur]
    IN  [h3 EXCEPT !.next[Fake(l)] = cur]

pop_front_unlinks_back(h, l) == unlink(h, h.prev[Fake(l)])

pop_front(h, l) == unlink(h, h.next[Fake(l)])

front(h, l) == h.next[Fake(l)]

empty(h, l) == Fake(l) = h.next[Fake(l)]

begin(h, l) == h.next[Fake(l)]

end(h, l) == Fake(l)

\* insert does not read the list object: only pos and the new node.
insert_after_pos(h, list_ent, new_list_ent) ==
    LET h1 == [h  EXCEPT !.prev[new_list_ent] = list_ent]
        h2 == [h1 EXCEPT !.next[new_list_ent] = h1.next[list_ent]]
        h3 == [h2 EXCEPT !.prev[h2.next[list_ent]] = new_list_ent]
    IN  [h3 EXCEPT !.next[list_ent] = new_list_ent]

insert(h, list_ent, new_list_ent) ==
    LET h1 == [h  EXCEPT !.next[new_list_ent] = list_ent]
        h2 == [h1 EXCEPT !.prev[new_list_ent] = h1.prev[list_ent]]
        h3 == [h2 EXCEPT !.next[h2.prev[list_ent]] = new_list_ent]
    IN  [h3 EXCEPT !.prev[list_ent] = new_list_ent]

insert_ret(h, list_ent, new_list_ent) == new_list_ent

erase_bridges_next_only(h, list_ent) ==
    LET h1 == [h EXCEPT !.prev[h.next[list_ent]] = h.prev[list_ent]]
    IN  [h1 EXCEPT !.next[list_ent] = NULL, !.prev[list_ent] = NULL]

erase(h, list_ent) == unlink(h, list_ent)

erase_ret_after_unlink(h, list_ent) == unlink(h, list_ent).next[list_ent]

erase_ret(h, list_ent) == h.next[list_ent]

splice_no_close(h, pos, first, last) ==
    IF first = last THEN h
    ELSE
    LET to_right   == pos
        to_left    == h.prev[to_right]
        from_right == operator_dec(h, last)
        from_left  == first
        h1 == [h  EXCEPT !.next[to_left] = from_left]
        h2 == [h1 EXCEPT !.prev[to_right] = from_right]
        h5 == [h2 EXCEPT !.prev[from_left] = to_left]
    IN  [h5 EXCEPT !.next[from_right] = to_right]

\* splice does not read either list object: only pos, first and last.
splice(h, pos, first, last) ==
    IF first = last THEN h
    ELSE
    LET to_right   == pos
        to_left    == h.prev[to_right]
        from_right == operator_dec(h, last)
        from_left  == first
        h1 == [h  EXCEPT !.next[to_left] = from_left]
        h2 == [h1 EXCEPT !.prev[to_right] = from_right]
        h3 == [h2 EXCEPT !.next[h2.prev[from_left]] = h2.next[from_right]]
        h4 == [h3 EXCEPT !.prev[h3.next[from_right]] = h3.prev[from_left]]
        h5 == [h4 EXCEPT !.prev[from_left] = to_left]
    IN  [h5 EXCEPT !.next[from_right] = to_right]

swap_fakes_only(h, l, rhs) ==
    [h EXCEPT !.next[Fake(l)]   = h.next[Fake(rhs)],
              !.prev[Fake(l)]   = h.prev[Fake(rhs)],
              !.next[Fake(rhs)] = h.next[Fake(l)],
              !.prev[Fake(rhs)] = h.prev[Fake(l)]]

swap_skips_rhs_prev(h, l, rhs) ==
    LET my_next  == h.next[Fake(l)]
        my_prev  == h.prev[Fake(l)]
        h1 == [h  EXCEPT !.prev[my_next] = Fake(rhs)]
        h2 == [h1 EXCEPT !.next[my_prev] = Fake(rhs)]
        rhs_next == h2.next[Fake(rhs)]
        h4 == [h2 EXCEPT !.prev[rhs_next] = Fake(l)]
    IN  [h4 EXCEPT !.next[Fake(l)]   = h4.next[Fake(rhs)],
                   !.prev[Fake(l)]   = h4.prev[Fake(rhs)],
                   !.next[Fake(rhs)] = h4.next[Fake(l)],
                   !.prev[Fake(rhs)] = h4.prev[Fake(l)]]

swap(h, l, rhs) ==
    LET my_next  == h.next[Fake(l)]
        my_prev  == h.prev[Fake(l)]
        h1 == [h  EXCEPT !.prev[my_next] = Fake(rhs)]
        h2 == [h1 EXCEPT !.next[my_prev] = Fake(rhs)]
        rhs_next == h2.next[Fake(rhs)]
        rhs_prev == h2.prev[Fake(rhs)]
        h3 == [h2 EXCEPT !.prev[rhs_next] = Fake(l)]
        h4 == [h3 EXCEPT !.next[rhs_prev] = Fake(l)]
    IN  \* std::swap(fake, rhs.fake)
        [h4 EXCEPT !.next[Fake(l)]   = h4.next[Fake(rhs)],
                   !.prev[Fake(l)]   = h4.prev[Fake(rhs)],
                   !.next[Fake(rhs)] = h4.next[Fake(l)],
                   !.prev[Fake(rhs)] = h4.prev[Fake(l)]]

list_move(h, l, rhs) == clear(swap(list(h, l), l, rhs), rhs)

operator_assign_move_no_clear(h, l, rhs) == swap(h, l, rhs)

operator_assign_move_clears_this(h, l, rhs) == clear(swap(h, l, rhs), l)

operator_assign_move(h, l, rhs) == clear(swap(h, l, rhs), rhs)

list_dtor(h, l) == clear(h, l)

-----------------------------------------------------------------------------
(* Reading a list: `for (it = begin(); it != end(); ++it)`, and the same    *)
(* backwards from --end().  The loop has no guard but it != end(), so it   *)
(* has three outcomes: it meets end() ("end"); it reaches a null link,     *)
(* which the next ++ / -- or * dereferences ("null dereference", undefined *)
(* behaviour); or it comes back to a position it has already read without  *)
(* having met end(), and then repeats the same positions for ever ("never  *)
(* ends").  `read` is the positions read, up to the first repetition.      *)

RECURSIVE WalkNext(_, _, _, _)
WalkNext(h, n, stop, seen) ==
    IF operator_eq(n, stop) THEN [outcome |-> "end", read |-> <<>>]
    ELSE IF n = NULL THEN [outcome |-> "null dereference", read |-> <<>>]
    ELSE IF n \in seen THEN [outcome |-> "never ends", read |-> <<>>]
    ELSE LET w == WalkNext(h, operator_inc(h, n), stop, seen \cup {n})
         IN  [outcome |-> w.outcome, read |-> <<n>> \o w.read]

RECURSIVE WalkPrev(_, _, _, _)
WalkPrev(h, n, stop, seen) ==
    IF operator_eq(n, stop) THEN [outcome |-> "end", read |-> <<>>]
    ELSE IF n = NULL THEN [outcome |-> "null dereference", read |-> <<>>]
    ELSE IF n \in seen THEN [outcome |-> "never ends", read |-> <<>>]
    ELSE LET w == WalkPrev(h, operator_dec(h, n), stop, seen \cup {n})
         IN  [outcome |-> w.outcome, read |-> <<n>> \o w.read]

\* the loop from begin() of list l meets end()
ChainEnds(h, l) == WalkNext(h, begin(h, l), end(h, l), {}).outcome = "end"

\* the loop from --end() of list l meets end()
RevChainEnds(h, l) ==
    WalkPrev(h, operator_dec(h, end(h, l)), end(h, l), {}).outcome = "end"

\* begin(), ++, ++, ... until end(): the positions read when the loop meets
\* end(), and the outcome of the loop when it does not
Chain(h, l) ==
    LET w == WalkNext(h, begin(h, l), end(h, l), {})
    IN  IF w.outcome = "end" THEN w.read ELSE w

\* --end(), --, --, ... until end(): likewise
RevChain(h, l) ==
    LET w == WalkPrev(h, operator_dec(h, end(h, l)), end(h, l), {})
    IN  IF w.outcome = "end" THEN w.read ELSE w

Range(s) == {s[i] : i \in 1..Len(s)}

Reverse(s) == [i \in 1..Len(s) |-> s[Len(s) + 1 - i]]

IsDetached(h, n) == h.next[n] = NULL /\ h.prev[n] = NULL

IsLinked(h, n) ==
    /\ h.next[n] # NULL
    /\ h.prev[n] # NULL
    /\ h.prev[h.next[n]] = n
    /\ h.next[h.prev[n]] = n

\* the positions of list l: its elements in order, then end(); of a list
\* whose loop from begin() meets end()
Positions(h, l) == Chain(h, l) \o <<end(h, l)>>

IndexOf(s, x) == CHOOSE i \in 1..Len(s) : s[i] = x

RemoveAt(s, i) == SubSeq(s, 1, i - 1) \o SubSeq(s, i + 1, Len(s))

InsertAt(s, i, x) == SubSeq(s, 1, i - 1) \o <<x>> \o SubSeq(s, i, Len(s))

\* the list whose chain holds element x
ListOf(h, x) == CHOOSE l \in Lists : x \in Range(Chain(h, l))

OnSomeList(h, x) == \E l \in Lists : x \in Range(Chain(h, l))

\* [first, last) is a range of list l
IsRange(h, l, first, last) ==
    /\ first \in Range(Positions(h, l))
    /\ last \in Range(Positions(h, l))
    /\ IndexOf(Positions(h, l), first) <= IndexOf(Positions(h, l), last)

-----------------------------------------------------------------------------
(* The reference container: a plain sequence per list, with positions      *)
(* named by the element they reference (Len + 1 for end()).                *)

RefIdx(s, l, pos) == IF pos = Fake(l) THEN Len(s) + 1 ELSE IndexOf(s, pos)

RefSplice(r, l, other, pos, first, last) ==
    LET i == RefIdx(r[l], l, pos)
        a == RefIdx(r[other], other, first)
        b == RefIdx(r[other], other, last)
    IN  [r EXCEPT ![l] = SubSeq(r[l], 1, i - 1) \o SubSeq(r[other], a, b - 1)
                            \o SubSeq(r[l], i, Len(r[l])),
                  ![other] = SubSeq(r[other], 1, a - 1)
                            \o SubSeq(r[other], b, Len(r[other]))]

-----------------------------------------------------------------------------
(* The state machine: one action per member function.  An action performs  *)
(* the whole call and records the call and the heap before it.             *)

Call(name, l, other, pos, first, last, val, ret) ==
    [name |-> name, this |-> l, other |-> other, pos |-> pos,
     first |-> first, last |-> last, val |-> val, ret |-> ret]

\* Storage before any constructor has run: list_element's default member
\* initialisers give every element null links.
Raw == [next |-> [n \in AllNodes |-> NULL],
        prev |-> [n \in AllNodes |-> NULL]]

\* list() run on the lists 1..k
RECURSIVE Constructed(_)
Constructed(k) == IF k = 0 THEN Raw ELSE list(Constructed(k - 1), k)

Init ==
    /\ next = Constructed(NumLists + 1).next
    /\ prev = Constructed(NumLists + 1).prev
    /\ alive = Lists
    /\ ref = [l \in Lists \cup {List2} |-> <<>>]
    /\ op = Call("list", 0, 0, 0, 0, 0, 0, 0)
    /\ old = [next |-> next, prev |-> prev]

Becomes(h) == next' = h.next /\ prev' = h.prev /\ old' = H

ListCtor(l) ==
    /\ Becomes(list(H, l))
    /\ alive' = alive \cup {l}
    /\ ref' = [ref EXCEPT ![l] = <<>>]
    /\ op' = Call("list", l, 0, 0, 0, 0, 0, 0)

ListMoveCtor(l, rhs) ==
    /\ Becomes(list_move(H, l, rhs))
    /\ alive' = alive \cup {l}
    /\ ref' = [ref EXCEPT ![l] = ref[rhs], ![rhs] = <<>>]
    /\ op' = Call("list_move", l, rhs, 0, 0, 0, 0, 0)

ListDtor(l) ==
    /\ Becomes(list_dtor(H, l))
    /\ alive' = alive \ {l}
    /\ ref' = [ref EXCEPT ![l] = <<>>]
    /\ op' = Call("list_dtor", l, 0, 0, 0, 0, 0, 0)

MoveAssign(l, rhs) ==
    /\ Becomes(operator_assign_move(H, l, rhs))
    /\ ref' = [ref EXCEPT ![l] = IF l = rhs THEN <<>> ELSE ref[rhs],
                          ![rhs] = <<>>]
    /\ op' = Call("operator_assign_move", l, rhs, 0, 0, 0, 0, 0)
    /\ UNCHANGED alive

Clear(l) ==
    /\ Becomes(clear(H, l))
    /\ ref' = [ref EXCEPT ![l] = <<>>]
    /\ op' = Call("clear", l, 0, 0, 0, 0, 0, 0)
    /\ UNCHANGED alive

PushBack(l, val) ==
    /\ Becomes(push_back(H, l, val))
    /\ ref' = [ref EXCEPT ![l] = Append(ref[l], val)]
    /\ op' = Call("push_back", l, 0, 0, 0, 0, val, 0)
    /\ UNCHANGED alive

PopBack(l) ==
    /\ Becomes(pop_back(H, l))
    /\ ref' = [ref EXCEPT ![l] = SubSeq(ref[l], 1, Len(ref[l]) - 1)]
    /\ op' = Call("pop_back", l, 0, 0, 0, 0, 0, 0)
    /\ UNCHANGED alive

PushFront(l, val) ==
    /\ Becomes(push_front(H, l, val))
    /\ ref' = [ref EXCEPT ![l] = <<val>> \o ref[l]]
    /\ op' = Call("push_front", l, 0, 0, 0, 0, val, 0)
    /\ UNCHANGED alive

PopFront(l) ==
    /\ Becomes(pop_front(H, l))
    /\ ref' = [ref EXCEPT ![l] = SubSeq(ref[l], 2, Len(ref[l]))]
    /\ op' = Call("pop_front", l, 0, 0, 0, 0, 0, 0)
    /\ UNCHANGED alive

Insert(l, pos, val) ==
    /\ Becomes(insert(H, pos, val))
    /\ ref' = [ref EXCEPT ![l] = InsertAt(ref[l], RefIdx(ref[l], l, pos), val)]
    /\ op' = Call("insert", l, 0, pos, 0, 0, val, insert_ret(H, pos, val))
    /\ UNCHANGED alive

Erase(l, pos) ==
    /\ Becomes(erase(H, pos))
    /\ ref' = [ref EXCEPT ![l] = RemoveAt(ref[l], RefIdx(ref[l], l, pos))]
    /\ op' = Call("erase", l, 0, pos, 0, 0, 0, erase_ret(H, pos))
    /\ UNCHANGED alive

Splice(l, other, pos, first, last) ==
    /\ Becomes(splice(H, pos, first, last))
    /\ ref' = RefSplice(ref, l, other, pos, first, last)
    /\ op' = Call("splice", l, other, pos, first, last, 0, 0)
    /\ UNCHANGED alive

Swap(l, rhs) ==
    /\ Becomes(swap(H, l, rhs))
    /\ ref' = [ref EXCEPT ![l] = ref[rhs], ![rhs] = ref[l]]
    /\ op' = Call("swap", l, rhs, 0, 0, 0, 0, 0)
    /\ UNCHANGED alive

\* a direct call of list_element::unlink() on an element
Unlink(n) ==
    /\ Becomes(unlink(H, n))
    /\ ref' = [l \in Lists \cup {List2} |->
                 IF n \in Range(ref[l])
                 THEN RemoveAt(ref[l], IndexOf(ref[l], n)) ELSE ref[l]]
    /\ op' = Call("unlink", 0, 0, n, 0, 0, 0, 0)
    /\ UNCHANGED alive

\* Every call respects the preconditions the interface leaves to the caller.

\* construction, destruction and moves
NextLifetime ==
    \/ \E l \in Lists \ alive : ListCtor(l)
    \/ \E l \in Lists \ alive, rhs \in alive : ListMoveCtor(l, rhs)
    \/ \E l \in alive : ListDtor(l)
    \/ \E l \in alive, rhs \in alive : MoveAssign(l, rhs)

\* the calls on one list; E: the elements the caller passes to the lists
NextSingle(E) ==
    \/ \E l \in alive : Clear(l)
    \/ \E l \in alive, val \in E : IsDetached(H, val) /\ PushBack(l, val)
    \/ \E l \in alive : ~empty(H, l) /\ PopBack(l)
    \/ \E l \in alive, val \in E : IsDetached(H, val) /\ PushFront(l, val)
    \/ \E l \in alive : ~empty(H, l) /\ PopFront(l)
    \/ \E l \in alive, val \in E :
          \E pos \in Range(Positions(H, l)) :
             IsDetached(H, val) /\ Insert(l, pos, val)
    \/ \E l \in alive : \E pos \in Range(Chain(H, l)) : Erase(l, pos)
    \/ \E n \in E : Unlink(n)

\* the calls on two lists
NextPair ==
    \/ \E l \in alive, other \in alive :
          \E pos \in Range(Positions(H, l)) :
             \E first \in Range(Positions(H, other)),
                last \in Range(Positions(H, other)) :
                /\ l # other
                /\ IsRange(H, other, first, last)
                /\ Splice(l, other, pos, first, last)
    \/ \E l \in alive, rhs \in alive : Swap(l, rhs)

NextOn(E) == NextLifetime \/ NextSingle(E) \/ NextPair

Next == NextOn(Elems)

Spec == Init /\ [][Next]_vars

\* The calls on the list of the second tag.  The element is converted to
\* its list_element of that tag, as push_back, push_front and insert do.
NextTag2(E) ==
    \/ \E val \in E :
          LET cur == static_cast_list_element(TagOf(List2), val)
          IN  IsDetached(H, cur) /\ PushBack(List2, cur)
    \/ \E val \in E :
          LET cur == static_cast_list_element(TagOf(List2), val)
          IN  IsDetached(H, cur) /\ PushFront(List2, cur)
    \/ ~empty(H, List2) /\ PopBack(List2)
    \/ ~empty(H, List2) /\ PopFront(List2)
    \/ \E val \in E :
          \E pos \in Range(Positions(H, List2)) :
             LET cur == static_cast_list_element(TagOf(List2), val)
             IN  IsDetached(H, cur) /\ Insert(List2, pos, cur)
    \/ \E pos \in Range(Chain(H, List2)) : Erase(List2, pos)
    \/ Clear(List2)
    \/ \E val \in E : Unlink(static_cast_list_element(TagOf(List2), val))

\* Elements 1..TagElems are put on lists of both tags.  The constructors,
\* the destructor and the move assignment are swap and clear on the same
\* nodes and are left out.
NextTags == NextSingle(1..TagElems) \/ NextPair \/ NextTag2(1..TagElems)

SpecTags == Init /\ [][NextTags]_vars

-----------------------------------------------------------------------------
(* Calls that the interface does not forbid and the code does not check:   *)
(* splice within one list, push or insert of an element that is linked in  *)
(* another list, pop or erase(end()) on an empty list.  None of them       *)
(* dereferences a null pointer when made on well-formed lists.             *)

\* the reference container after a splice within list l, pos outside the
\* range: the range is taken out and put back before pos
RefSpliceSame(r, l, pos, first, last) ==
    LET s == r[l]
        i == RefIdx(s, l, pos)
        a == RefIdx(s, l, first)
        b == RefIdx(s, l, last)
        rest == SubSeq(s, 1, a - 1) \o SubSeq(s, b, Len(s))
        j == IF i <= a THEN i ELSE i - (b - a)
    IN  [r EXCEPT ![l] = SubSeq(rest, 1, j - 1) \o SubSeq(s, a, b - 1)
                            \o SubSeq(rest, j, Len(rest))]

SpliceSame(l, pos, first, last) ==
    /\ Becomes(splice(H, pos, first, last))
    /\ ref' = RefSpliceSame(ref, l, pos, first, last)
    /\ op' = Call("splice", l, l, pos, first, last, 0, 0)
    /\ UNCHANGED alive

\* pos is a position of list l outside the range [first, last) of l
OutsideRange(h, l, pos, first, last) ==
    /\ pos \in Range(Positions(h, l))
    /\ \/ IndexOf(Positions(h, l), pos) < IndexOf(Positions(h, l), first)
       \/ IndexOf(Positions(h, l), pos) >= IndexOf(Positions(h, l), last)

\* every list is a circular chain closed on its sentinel and every element
\* is detached or on one of them
Sound(h) ==
    /\ \A l \in Lists : ChainEnds(h, l)
    /\ \A l \in Lists :
          LET c == Chain(h, l)
              tail == IF c = <<>> THEN Fake(l) ELSE c[Len(c)]
          IN  /\ IsLinked(h, Fake(l))
              /\ \A i \in 1..Len(c) : IsLinked(h, c[i]) /\ c[i] \in Elems
              /\ h.next[tail] = Fake(l)
    /\ \A e \in Elems :
          IsDetached(h, e) \/ \E l \in Lists : e \in Range(Chain(h, l))

\* Calls are made as long as the lists are well-formed.
NextUnchecked ==
    \/ /\ Sound(H)
       /\ \E l \in alive :
             \E pos \in Range(Positions(H, l)),
                first \in Range(Positions(H, l)),
                last \in Range(Positions(H, l)) :
                /\ IsRange(H, l, first, last)
                /\ OutsideRange(H, l, pos, first, last)
                /\ SpliceSame(l, pos, first, last)
    \/ /\ Sound(H)
       /\ \E l \in alive, val \in Elems :
             /\ OnSomeList(H, val) /\ ListOf(H, val) # l
             /\ PushBack(l, val)
    \/ /\ Sound(H)
       /\ \E l \in alive, val \in Elems :
             /\ OnSomeList(H, val) /\ ListOf(H, val) # l
             /\ PushFront(l, val)
    \/ /\ Sound(H)
       /\ \E l \in alive, val \in Elems :
             \E pos \in Range(Positions(H, l)) :
                /\ OnSomeList(H, val) /\ ListOf(H, val) # l
                /\ Insert(l, pos, val)
    \/ Sound(H) /\ \E l \in alive : empty(H, l) /\ PopBack(l)
    \/ Sound(H) /\ \E l \in alive : empty(H, l) /\ PopFront(l)
    \/ Sound(H) /\ \E l \in alive : empty(H, l) /\ Erase(l, end(H, l))

\* The calls on one list build every arrangement of the elements on the
\* lists.
NextChecked == Sound(H) /\ NextSingle(Elems)

NextAny == NextChecked \/ NextUnchecked

SpecUnchecked == Init /\ [][NextAny]_vars

-----------------------------------------------------------------------------
(* Vocabulary of the properties *)

\* the last call was `name`
Called(name) == op.name = name

\* list l is a circular chain closed on its own sentinel
WellFormed(h, l) ==
    LET c == Chain(h, l)
        tail == IF c = <<>> THEN Fake(l) ELSE c[Len(c)]
    IN  /\ ChainEnds(h, l)
        /\ RevChainEnds(h, l)
        /\ IsLinked(h, Fake(l))
        /\ \A i \in 1..Len(c) : IsLinked(h, c[i])
        /\ h.next[tail] = Fake(l)
        /\ RevChain(h, l) = Reverse(c)
        /\ Range(c) \subseteq Elems
        /\ c = <<>> => h.next[Fake(l)] = Fake(l) /\ h.prev[Fake(l)] = Fake(l)

\* node n has the same links in g and h
SameLinks(g, h, n) == g.next[n] = h.next[n] /\ g.prev[n] = h.prev[n]

RECURSIVE IncN(_, _, _)
IncN(h, p, k) == IF k = 0 THEN p ELSE IncN(h, operator_inc(h, p), k - 1)

RECURSIVE DecN(_, _, _)
DecN(h, p, k) == IF k = 0 THEN p ELSE DecN(h, operator_dec(h, p), k - 1)

-----------------------------------------------------------------------------
\* C1: after every step the elements read by following next from the
\* sentinel are the contents of the reference sequence that received the
\* same operations, and front() / back() are its first / last element.
C1_MatchesReference ==
    \A l \in alive :
        /\ Chain(H, l) = ref[l]
        /\ ref[l] # <<>> =>
              /\ front(H, l) = ref[l][1]
              /\ back(H, l) = ref[l][Len(ref[l])]

\* pushes at both ends followed by a pop, two elements left
C1_Witness ==
    /\ Called("pop_front")
    /\ Len(ref[op.this]) = 2
    /\ Len(Chain(old, op.this)) = 3
    /\ back(H, op.this) # front(H, op.this)

\* C2: every element is detached (both links null) or linked (both links
\* non-null, next.prev and prev.next are the element itself), and a linked
\* element lies on the chain of exactly one list.
C2_DetachedOrLinked ==
    \A e \in Elems :
        \/ IsDetached(H, e)
        \/ /\ IsLinked(H, e)
           /\ Cardinality({l \in Lists : e \in Range(Chain(H, l))}) = 1

\* a splice has left an element on each of two lists and a third detached
C2_Witness ==
    /\ Called("splice")
    /\ op.first # op.last
    /\ Chain(H, op.this) # <<>>
    /\ Chain(H, op.other) # <<>>
    /\ \E e \in Elems : IsDetached(H, e)

\* C3: splice of a non-empty range of another list puts the range, in its
\* order, immediately before pos, removes it from the other list and keeps
\* every other element in place, so the combined length is unchanged.
C3_SpliceMovesRange ==
    (Called("splice") /\ op.this # op.other /\ op.first # op.last) =>
        LET A == Chain(old, op.this)
            B == Chain(old, op.other)
            i == IndexOf(Positions(old, op.this), op.pos)
            a == IndexOf(Positions(old, op.other), op.first)
            b == IndexOf(Positions(old, op.other), op.last)
        IN  /\ Chain(H, op.this) = SubSeq(A, 1, i - 1) \o SubSeq(B, a, b - 1)
                                      \o SubSeq(A, i, Len(A))
            /\ Chain(H, op.other) = SubSeq(B, 1, a - 1) \o SubSeq(B, b, Len(B))
            /\ Len(Chain(H, op.this)) + Len(Chain(H, op.other))
                  = Len(A) + Len(B)
            /\ (A = <<>> /\ a = 1 /\ b = Len(B) + 1) =>
                  Chain(H, op.this) = B /\ Chain(H, op.other) = <<>>

\* a proper sub-range was spliced before an element of a non-empty list
C3_Witness ==
    /\ Called("splice")
    /\ op.this # op.other
    /\ op.first # op.last
    /\ op.pos # Fake(op.this)
    /\ op.last # Fake(op.other)
    /\ Len(Chain(H, op.this)) = 2
    /\ Chain(H, op.this)[1] = op.first
    /\ Chain(H, op.this)[2] = op.pos
    /\ Chain(H, op.other) = <<op.last>>

\* C4: swap of two distinct lists exchanges their contents, order kept,
\* and leaves both chains circular and closed on their own sentinel.
C4_SwapExchanges ==
    (Called("swap") /\ op.this # op.other) =>
        /\ Chain(H, op.this) = Chain(old, op.other)
        /\ Chain(H, op.other) = Chain(old, op.this)
        /\ WellFormed(H, op.this)
        /\ WellFormed(H, op.other)

\* an empty list was swapped with one holding two elements
C4_Witness ==
    /\ Called("swap")
    /\ op.this # op.other
    /\ Chain(old, op.this) = <<>>
    /\ Len(Chain(old, op.other)) = 2
    /\ Len(Chain(H, op.this)) = 2
    /\ empty(H, op.other)

\* C5: move construction and move assignment from a different list leave
\* the source empty, its sentinel self-linked, and the destination holding
\* the source's former elements in their former order.
C5_MoveTransfers ==
    ((Called("list_move") \/ Called("operator_assign_move"))
        /\ op.this # op.other) =>
        /\ Chain(H, op.other) = <<>>
        /\ H.next[Fake(op.other)] = Fake(op.other)
        /\ H.prev[Fake(op.other)] = Fake(op.other)
        /\ Chain(H, op.this) = Chain(old, op.other)
        /\ WellFormed(H, op.this)

\* a non-empty list was move-assigned to a non-empty destination
C5_Witness ==
    /\ Called("operator_assign_move")
    /\ op.this # op.other
    /\ Len(Chain(old, op.other)) = 2
    /\ Len(Chain(old, op.this)) = 1
    /\ Len(Chain(H, op.this)) = 2

\* C6: after clear() or the destructor the list is empty, its former
\* elements are detached, no element points at its sentinel, and the
\* elements and sentinels of other lists are untouched.
C6_ClearDetaches ==
    (Called("clear") \/ Called("list_dtor")) =>
        /\ empty(H, op.this)
        /\ Chain(H, op.this) = <<>>
        /\ \A e \in Range(Chain(old, op.this)) : IsDetached(H, e)
        /\ \A e \in Elems :
              H.next[e] # Fake(op.this) /\ H.prev[e] # Fake(op.this)
        /\ \A n \in Nodes \ (Range(Chain(old, op.this)) \cup {Fake(op.this)}) :
              SameLinks(old, H, n)

\* a list of two elements was destroyed while another list held one
C6_Witness ==
    /\ Called("list_dtor")
    /\ Len(Chain(old, op.this)) = 2
    /\ \E l \in alive : Len(Chain(H, l)) = 1

\* C7: erase of a real element returns the position that followed it,
\* end() when it was last, detaches it and keeps the other elements in
\* their order.
C7_EraseReturnsNext ==
    Called("erase") =>
        LET P == Positions(old, op.this)
            i == IndexOf(P, op.pos)
        IN  /\ op.ret = P[i + 1]
            /\ op.ret = operator_inc(old, op.pos)
            /\ IsDetached(H, op.pos)
            /\ Chain(H, op.this) = RemoveAt(Chain(old, op.this), i)
            /\ \A l \in Lists \ {op.this} : Chain(H, l) = Chain(old, l)

\* the middle element of three was erased
C7_Witness ==
    /\ Called("erase")
    /\ Len(Chain(old, op.this)) = 3
    /\ Chain(old, op.this)[2] = op.pos
    /\ op.ret = Chain(H, op.this)[2]

\* C8: insert puts the element immediately before pos, keeps the others in
\* order and returns a position referencing it; at end() the resulting
\* heap is that of push_back, at begin() that of push_front.
C8_InsertBeforePos ==
    Called("insert") =>
        LET A == Chain(old, op.this)
            i == IndexOf(Positions(old, op.this), op.pos)
        IN  /\ Chain(H, op.this) = InsertAt(A, i, op.val)
            /\ operator_inc(H, op.val) = op.pos
            /\ op.ret = op.val
            /\ \A l \in Lists \ {op.this} : Chain(H, l) = Chain(old, l)
            /\ op.pos = end(old, op.this) => H = push_back(old, op.this, op.val)
            /\ op.pos = begin(old, op.this) =>
                  H = push_front(old, op.this, op.val)

\* an element was inserted at end() of a list of two
C8_Witness ==
    /\ Called("insert")
    /\ op.pos = end(old, op.this)
    /\ Len(Chain(old, op.this)) = 2
    /\ back(H, op.this) = op.val

\* C9: for each list, empty(), fake.next == &fake, fake.prev == &fake and
\* "the list holds no element" are equivalent.
C9_EmptyEquivalences ==
    \A l \in alive :
        /\ empty(H, l) <=> H.next[Fake(l)] = Fake(l)
        /\ empty(H, l) <=> H.prev[Fake(l)] = Fake(l)
        /\ empty(H, l) <=> ref[l] = <<>>
        /\ empty(H, l) <=>
              {e \in Elems : H.next[e] = Fake(l) \/ H.prev[e] = Fake(l)} = {}

\* a list became empty again by a pop while another list is not empty
C9_Witness ==
    /\ Called("pop_back")
    /\ empty(H, op.this)
    /\ ~empty(old, op.this)
    /\ \E l \in alive : ~empty(H, l)

\* C10: from begin(), ++ visits the n elements in order and reaches end()
\* after exactly n steps; from end(), -- visits them in reverse and is
\* back at end() after n + 1 steps; -- undoes ++ and ++ undoes -- at every
\* position, the sentinel included.
C10_Traversal ==
    \A l \in alive :
        LET n == Len(ref[l]) IN
        /\ \A k \in 1..n : IncN(H, begin(H, l), k - 1) = ref[l][k]
        /\ IncN(H, begin(H, l), n) = end(H, l)
        /\ \A k \in 1..n : DecN(H, end(H, l), k) = ref[l][n + 1 - k]
        /\ DecN(H, end(H, l), n + 1) = end(H, l)
        /\ \A p \in Range(ref[l]) \cup {end(H, l)} :
              /\ operator_dec(H, operator_inc(H, p)) = p
              /\ operator_inc(H, operator_dec(H, p)) = p

\* a list of three elements
C10_Witness ==
    \E l \in alive :
        /\ Len(ref[l]) = 3
        /\ IncN(H, begin(H, l), 3) = end(H, l)
        /\ DecN(H, end(H, l), 4) = end(H, l)

-----------------------------------------------------------------------------
\* the elements the last call is meant to unlink, read from its arguments
Unlinked ==
    CASE Called("pop_back")  -> {back(old, op.this)}
      [] Called("pop_front") -> {front(old, op.this)}
      [] Called("erase")     -> {op.pos}
      [] Called("unlink")    -> {op.pos}
      [] Called("clear")     -> Range(Chain(old, op.this))
      [] Called("list_dtor") -> Range(Chain(old, op.this))
      [] Called("operator_assign_move") -> Range(Chain(old, op.this))
      [] OTHER -> {}

\* C11: an iterator referencing element x stays valid across every call
\* that does not unlink x.  After a push, insert, pop or erase of other
\* elements x is on the same list, found again by a traversal from
\* begin(), with the same neighbours unless a neighbour was removed or the
\* new element put next to it.  After swap, or a move from one list into
\* another, x is at the same index of the other list.  x is detached
\* exactly when the call unlinks it.
C11_IteratorValidity ==
    \A x \in Elems :
        OnSomeList(old, x) =>
            /\ IsDetached(H, x) <=> x \in Unlinked
            /\ x \notin Unlinked =>
                  /\ IsLinked(H, x)
                  /\ OnSomeList(H, x)
                  /\ \E k \in 0..NumElems :
                        operator_eq(IncN(H, begin(H, ListOf(H, x)), k), x)
            /\ (x \notin Unlinked /\ op.name \in
                  {"push_back", "push_front", "insert",
                   "pop_back", "pop_front", "erase", "unlink"}) =>
                  /\ ListOf(H, x) = ListOf(old, x)
                  /\ \/ H.next[x] = old.next[x]
                     \/ old.next[x] \in Unlinked
                     \/ H.next[x] = op.val
                  /\ \/ H.prev[x] = old.prev[x]
                     \/ old.prev[x] \in Unlinked
                     \/ H.prev[x] = op.val
            /\ (Called("swap") /\ op.this # op.other) =>
                  LET from == ListOf(old, x)
                      to == IF from = op.this THEN op.other
                            ELSE IF from = op.other THEN op.this ELSE from
                  IN  /\ ListOf(H, x) = to
                      /\ IndexOf(Chain(H, to), x) = IndexOf(Chain(old, from), x)
            /\ ((Called("list_move") \/ Called("operator_assign_move"))
                  /\ op.this # op.other /\ ListOf(old, x) = op.other) =>
                  /\ ListOf(H, x) = op.this
                  /\ IndexOf(Chain(H, op.this), x)
                        = IndexOf(Chain(old, op.other), x)

\* two non-empty lists were swapped
C11_Witness ==
    /\ Called("swap")
    /\ op.this # op.other
    /\ Len(Chain(old, op.this)) = 2
    /\ Len(Chain(old, op.other)) = 1
    /\ Len(Chain(H, op.other)) = 2

-----------------------------------------------------------------------------
\* the last call was made on a list (or a node) of the first / second tag
IsTag1Call == op.this \in Lists \/ (Called("unlink") /\ op.pos \in Elems)

IsTag2Call == op.this = List2 \/ (Called("unlink") /\ op.pos \in Nodes2)

\* C12: a call on a list of one tag leaves every link of the other tag
\* unchanged, in the elements and in the sentinels, so the contents and
\* the order of the lists of the other tag are unchanged.
C12_TagsIndependent ==
    /\ IsTag1Call =>
          /\ \A n \in Nodes2 : SameLinks(old, H, n)
          /\ Chain(H, List2) = Chain(old, List2)
    /\ IsTag2Call =>
          /\ \A n \in Nodes : SameLinks(old, H, n)
          /\ \A l \in Lists : Chain(H, l) = Chain(old, l)

\* an element was front() of a list of the first tag and back() of the
\* list of the second tag; pop_back removed it from the latter and it is
\* still front() of the former
C12_Witness ==
    /\ Called("pop_back")
    /\ op.this = List2
    /\ \E x \in Elems, l \in alive :
          /\ front(old, l) = x
          /\ back(old, List2) = static_cast_list_element(TagOf(List2), x)
          /\ Len(Chain(old, l)) = 2
          /\ Len(Chain(old, List2)) = 2
          /\ front(H, l) = x
          /\ Chain(H, l) = Chain(old, l)
          /\ IsDetached(H, static_cast_list_element(TagOf(List2), x))
          /\ IsLinked(H, x)

-----------------------------------------------------------------------------
\* C13: a second swap of the same two distinct lists, made right after the
\* first, gives every sentinel and every element the next and prev it had
\* before the first.
C13_SwapTwiceRestores ==
    (Called("swap") /\ op.this # op.other) =>
        /\ swap(H, op.this, op.other) = old
        /\ swap(H, op.other, op.this) = old

\* a list of three elements was swapped with an empty one
C13_Witness ==
    /\ Called("swap")
    /\ op.this # op.other
    /\ Len(Chain(old, op.this)) = 3
    /\ empty(old, op.other)
    /\ H # old
    /\ swap(H, op.this, op.other) = old

\* C14: erase of the position returned by insert, made right after the
\* insert, gives every node the links it had before the insert, the
\* inserted element detached again, and returns pos.
C14_InsertEraseRoundTrip ==
    Called("insert") =>
        /\ erase(H, op.ret) = old
        /\ erase_ret(H, op.ret) = op.pos
        /\ IsDetached(erase(H, op.ret), op.val)

\* an element was inserted between two elements
C14_Witness ==
    /\ Called("insert")
    /\ Len(Chain(old, op.this)) = 2
    /\ op.pos = Chain(old, op.this)[2]
    /\ Chain(H, op.this)[2] = op.ret
    /\ erase(H, op.ret) = old

\* C15: unlink() of a detached node changes no link; a second unlink() of
\* a node leaves the state the first left: the node detached and its two
\* former neighbours linked to each other.
C15_UnlinkIdempotent ==
    /\ \A e \in Elems : IsDetached(H, e) => unlink(H, e) = H
    /\ Called("unlink") =>
          /\ IsDetached(old, op.pos) => H = old
          /\ IsDetached(H, op.pos)
          /\ unlink(H, op.pos) = H
          /\ unlink(unlink(old, op.pos), op.pos) = unlink(old, op.pos)
          /\ ~IsDetached(old, op.pos) =>
                /\ H.next[old.prev[op.pos]] = old.next[op.pos]
                /\ H.prev[old.next[op.pos]] = old.prev[op.pos]

\* the middle element of three was unlinked
C15_Witness ==
    /\ Called("unlink")
    /\ \E l \in alive :
          /\ Len(Chain(old, l)) = 3
          /\ Chain(old, l)[2] = op.pos
          /\ Chain(H, l) = <<Chain(old, l)[1], Chain(old, l)[3]>>
    /\ unlink(H, op.pos) = H

-----------------------------------------------------------------------------
\* C18: move assignment to a different, non-empty destination leaves every
\* former element of the destination detached, so the destructor of either
\* list, run afterwards, changes none of them.
C18_MoveAssignDetachesOld ==
    (Called("operator_assign_move") /\ op.this # op.other
        /\ Chain(old, op.this) # <<>>) =>
        \A e \in Range(Chain(old, op.this)) :
            /\ IsDetached(H, e)
            /\ \A l \in Lists : e \notin Range(Chain(H, l))
            /\ SameLinks(list_dtor(H, op.this), H, e)
            /\ SameLinks(list_dtor(H, op.other), H, e)

\* a list of one element was move-assigned to a list of two
C18_Witness ==
    /\ Called("operator_assign_move")
    /\ op.this # op.other
    /\ Len(Chain(old, op.this)) = 2
    /\ Len(Chain(old, op.other)) = 1
    /\ \A e \in Range(Chain(old, op.this)) : IsDetached(H, e)

\* C20: on a list of n elements the loop of clear() makes exactly n
\* iterations; iteration k + 1 unlinks the element that is first after k
\* iterations and leaves the elements after it; after n iterations the
\* loop condition is false and the sentinel is linked to itself.
C20_ClearTerminates ==
    /\ \A l \in alive :
          LET C == Chain(H, l)
              n == Len(C)
          IN  /\ clear_iterations(H, l, NumNodes + 1) = n
              /\ \A k \in 0..(n - 1) :
                    /\ clear_cond(clear_after(H, l, k), l)
                    /\ front(clear_after(H, l, k), l) = C[k + 1]
                    /\ IsDetached(clear_after(H, l, k + 1), C[k + 1])
                    /\ Chain(clear_after(H, l, k + 1), l) = SubSeq(C, k + 2, n)
              /\ ~clear_cond(clear_after(H, l, n), l)
              /\ clear_after(H, l, n).next[Fake(l)] = Fake(l)
              /\ clear_after(H, l, n).prev[Fake(l)] = Fake(l)
              /\ clear(H, l) = clear_after(H, l, n)
    /\ Called("clear") =>
          /\ H = clear_after(old, op.this, Len(Chain(old, op.this)))
          /\ H.next[Fake(op.this)] = Fake(op.this)
          /\ H.prev[Fake(op.this)] = Fake(op.this)

\* clear() was called on a list of three elements
C20_Witness ==
    /\ Called("clear")
    /\ op.this \in alive
    /\ Len(Chain(old, op.this)) = 3
    /\ clear_iterations(old, op.this, NumNodes + 1) = 3
    /\ empty(H, op.this)

-----------------------------------------------------------------------------
\* the last call was a splice within one list of a non-empty range, pos
\* outside the range
SameListSplice ==
    /\ Called("splice")
    /\ op.this = op.other
    /\ op.first # op.last

\* the result of such a splice is as the interface describes it
SpliceSameAsDescribed ==
    LET l == op.this
        A == Chain(old, l)
        P == Positions(old, l)
        i == IndexOf(P, op.pos)
        a == IndexOf(P, op.first)
        b == IndexOf(P, op.last)
        rest == SubSeq(A, 1, a - 1) \o SubSeq(A, b, Len(A))
        j == IF i <= a THEN i ELSE i - (b - a)
    IN  /\ WellFormed(H, l)
        /\ Range(Chain(H, l)) = Range(A)
        /\ Chain(H, l) = SubSeq(rest, 1, j - 1) \o SubSeq(A, a, b - 1)
                            \o SubSeq(rest, j, Len(rest))

\* C16: a splice within one list of a non-empty range, pos outside the
\* range (pos == last included), leaves a valid chain with the same elements
\* and the range immediately before pos in its order.
C16_SameListSplice == SameListSplice => SpliceSameAsDescribed

\* the cases other than pos == last
C16_PosNotLast ==
    (SameListSplice /\ op.pos # op.last) => SpliceSameAsDescribed

\* with pos == last the chain is never left valid
C16_PosLastBreaks ==
    (SameListSplice /\ op.pos = op.last) =>
        /\ ~WellFormed(H, op.this)
        /\ H.prev[op.first] = old.prev[op.last]
        /\ H.prev[op.first] # old.prev[op.first]

-----------------------------------------------------------------------------
\* the last call pushed or inserted an element linked in another list
LinkedElementPushed ==
    /\ op.name \in {"push_back", "push_front", "insert"}
    /\ OnSomeList(old, op.val)
    /\ ListOf(old, op.val) # op.this

\* some node of the set violates next.prev == node or prev.next == node
HasBrokenNode(h, S) == \E n \in S : ~IsLinked(h, n)

\* the sentinel of list l and the elements that were on it before the call
NodesBefore(l) == {Fake(l)} \cup Range(Chain(old, l))

\* C17 as stated: after a push or insert of an element linked in another
\* list, both the list it was in and the list that received it contain a
\* node violating the mutual-reference invariant.
C17_BothChainsBroken ==
    LinkedElementPushed =>
        /\ HasBrokenNode(H, NodesBefore(ListOf(old, op.val)) \ {op.val})
        /\ HasBrokenNode(H, NodesBefore(op.this) \cup {op.val})

\* C17 amended: the list the element was in contains a node violating the
\* invariant (each former neighbour of the element), while the list that
\* received it is a valid chain holding the element where it was put.
C17_SourceChainBroken ==
    LinkedElementPushed =>
        /\ ~IsLinked(H, old.prev[op.val])
        /\ ~IsLinked(H, old.next[op.val])
        /\ HasBrokenNode(H, NodesBefore(ListOf(old, op.val)) \ {op.val})
        /\ ~HasBrokenNode(H, NodesBefore(op.this) \cup {op.val})
        /\ WellFormed(H, op.this)
        /\ Chain(H, op.this) =
              InsertAt(Chain(old, op.this),
                       IF Called("push_front") THEN 1
                       ELSE IF Called("push_back")
                            THEN Len(Chain(old, op.this)) + 1
                            ELSE IndexOf(Positions(old, op.this), op.pos),
                       op.val)

\* the middle element of a list of two was pushed to the front of a list
\* of one
C17_Witness ==
    /\ Called("push_front")
    /\ LinkedElementPushed
    /\ Len(Chain(old, ListOf(old, op.val))) = 2
    /\ Len(Chain(old, op.this)) = 1
    /\ front(H, op.this) = op.val
    /\ ~IsLinked(H, Fake(ListOf(old, op.val)))
           \/ ~IsLinked(H, old.next[op.val])

-----------------------------------------------------------------------------
\* the last call was pop_back(), pop_front() or erase(end()) on an empty list
PoppedEmpty ==
    /\ \/ Called("pop_back")
       \/ Called("pop_front")
       \/ Called("erase") /\ op.pos = Fake(op.this)
    /\ empty(old, op.this)

\* C19: pop_back(), pop_front() and erase(end()) on an empty list unlink
\* the sentinel: its next and prev are null afterwards, empty() is false
\* although no element is linked to the sentinel, a loop from begin() or
\* --end() no longer meets end(), and nothing else has changed.
C19_PopEmptyUnlinksSentinel ==
    PoppedEmpty =>
        /\ H.next[Fake(op.this)] = NULL
        /\ H.prev[Fake(op.this)] = NULL
        /\ ~empty(H, op.this)
        /\ ~ChainEnds(H, op.this)
        /\ ~RevChainEnds(H, op.this)
        /\ \A e \in Elems :
              H.next[e] # Fake(op.this) /\ H.prev[e] # Fake(op.this)
        /\ H # old
        /\ \A n \in AllNodes \ {Fake(op.this)} : SameLinks(old, H, n)

\* pop_back() was called on an empty list while another list held elements
C19_Witness ==
    /\ Called("pop_back")
    /\ PoppedEmpty
    /\ IsDetached(H, Fake(op.this))
    /\ \E l \in alive \ {op.this} : Len(Chain(H, l)) = 2

====
